---- MODULE Spec2Model ----
(***************************************************************************)
(* Organizational Structure API: departments (a parent-pointer tree) and   *)
(* employees, as kept by app/services/department.py on top of the          *)
(* relational store declared in app/models and the Alembic migration.      *)
(*                                                                         *)
(* Spec      every HTTP handler is one atomic step (requests one at a      *)
(*           time, each in its own session and transaction).               *)
(* SpecConc  two workers, each running one request statement by statement  *)
(*           against the committed store (READ COMMITTED).                 *)
(* SpecUpdate two workers, each running one PATCH /departments/{id}        *)
(*           statement by statement.                                       *)
(* SpecTree  GET /departments/{id} applied to stores with several          *)
(*           employees in a department.                                    *)
(***************************************************************************)
EXTENDS Integers, Sequences, FiniteSets, TLC

\* ------------------------------------------------------------------ bounds
MaxDepartments == 3
MaxEmployees == 1
MaxDepth == 3
MaxTreeEmployees == 2

\* ------------------------------------------------------- program constants
NULL == 0
MAX_NAME_LENGTH == 200
MIN_DEPTH == 1
MAX_DEPTH == 5

DeptIds == 1..MaxDepartments
EmpIds == 1..MaxEmployees

\* Request strings are sequences of characters, so that trimming is computed.
RawNames == { <<>>, <<" ">>, <<"a">>, <<" ", "b", " ">> }
NoName == <<>>
Absent == -1
\* PATCH bodies: each field present or left out.
UpdateBodies ==
    [has_name : {TRUE}, name : RawNames,
     parent_id : DeptIds \cup {NULL, Absent}]
    \cup [has_name : {FALSE}, name : {NoName},
          parent_id : DeptIds \cup {NULL, Absent}]
Modes == {"cascade", "reassign", "invalid"}

\* POST /departments/{id}/employees/ bodies: full_name and position as sent
\* (hired_at is stored and returned, and read by nothing).
EmployeeBodies == [full_name : RawNames, position : {<<"p">>, <<" ">>}]
\* The values func.now() may give an INSERT; two rows can get the same one.
Times == {1, 2}

Workers == {1, 2}

VARIABLES
    departments,              \* committed rows of table departments, by id
    employees,                \* committed rows of table employees, by id
    next_department_id,       \* the id sequence of departments
    next_employee_id,         \* the id sequence of employees
    uq_departments_name_root, \* whether the migration's partial index exists
    sessions                  \* per worker: the request and session in flight

vars == <<departments, employees, next_department_id, next_employee_id,
          uq_departments_name_root, sessions>>

\* The committed store as one value: what a session reads and writes.
Store == [departments |-> departments, employees |-> employees]

\* ------------------------------------------------------------- validation
RECURSIVE lstrip(_)
lstrip(v) == IF v # <<>> /\ Head(v) = " " THEN lstrip(Tail(v)) ELSE v

RECURSIVE rstrip(_)
rstrip(v) ==
    IF v # <<>> /\ v[Len(v)] = " " THEN rstrip(SubSeq(v, 1, Len(v) - 1)) ELSE v

strip(v) == rstrip(lstrip(v))

\* DepartmentCreate without trim_name: the name is taken as sent.
DepartmentCreate_untrimmed(body) ==
    [valid |-> Len(body.name) >= 1 /\ Len(body.name) <= MAX_NAME_LENGTH,
     name |-> body.name,
     parent_id |-> body.parent_id]

\* DepartmentCreate: name trimmed (mode="before"), then 1 <= len <= 200.
DepartmentCreate(body) ==
    LET name == strip(body.name)
    IN  [valid |-> Len(name) >= 1 /\ Len(name) <= MAX_NAME_LENGTH,
         name |-> name,
         parent_id |-> body.parent_id]

\* DepartmentUpdate: an omitted name is None; a given name is trimmed and an
\* all-blank one becomes None ("v.strip() or None"); an omitted parent_id and
\* an explicit null are both None.
DepartmentUpdate(body) ==
    LET name == IF body.has_name THEN strip(body.name) ELSE NoName
    IN  [valid |-> Len(name) <= MAX_NAME_LENGTH,
         name |-> name,
         parent_id |-> IF body.parent_id = Absent THEN NULL ELSE body.parent_id]

\* EmployeeCreate: full_name and position trimmed, then 1 <= len <= 200.
EmployeeCreate(body) ==
    LET full_name == strip(body.full_name)
        position == strip(body.position)
    IN  [valid |-> /\ Len(full_name) >= 1 /\ Len(full_name) <= MAX_NAME_LENGTH
                   /\ Len(position) >= 1 /\ Len(position) <= MAX_NAME_LENGTH,
         full_name |-> full_name,
         position |-> position]

\* ------------------------------------------------------- store constraints
\* The store without the constraint: every (name, parent_id) is accepted.
uq_department_name_parent_dropped(depts) == TRUE

\* uq_department_name_parent: SQL UNIQUE treats NULL parent_ids as distinct.
uq_department_name_parent(depts) ==
    \A x, y \in DOMAIN depts :
        (x # y /\ depts[x].name = depts[y].name
              /\ depts[x].parent_id = depts[y].parent_id)
            => depts[x].parent_id = NULL

\* ForeignKey("departments.id") on departments.parent_id and
\* employees.department_id.
ForeignKeys(db) ==
    /\ \A d \in DOMAIN db.departments :
          db.departments[d].parent_id # NULL
              => db.departments[d].parent_id \in DOMAIN db.departments
    /\ \A e \in DOMAIN db.employees :
          db.employees[e].department_id \in DOMAIN db.departments

\* uq_departments_name_root: the partial unique index of the migration
\* (WHERE parent_id IS NULL).  Base.metadata.create_all does not create it.
root_names_unique(depts) ==
    \A x, y \in DOMAIN depts :
        (x # y /\ depts[x].parent_id = NULL /\ depts[y].parent_id = NULL)
            => depts[x].name # depts[y].name

IntegrityOK(db) ==
    /\ uq_department_name_parent(db.departments)
    /\ uq_departments_name_root => root_names_unique(db.departments)
    /\ ForeignKeys(db)

\* db.commit(): the flushed statements either all become the store, or the
\* store raises IntegrityError, no handler catches it (500) and closing the
\* session rolls everything back.
commit(old, new) ==
    IF IntegrityOK(new) THEN [result |-> "ok", db |-> new]
    ELSE [result |-> "ServerError", db |-> old]

Failed(kind, db) == [result |-> kind, db |-> db]

\* ---------------------------------------------------------------- service
_get_department(db, department_id) == department_id \in DOMAIN db.departments

ChildrenOf(db, department_id) ==
    {c \in DOMAIN db.departments : db.departments[c].parent_id = department_id}

EmployeesOf(db, department_id) ==
    {e \in DOMAIN db.employees : db.employees[e].department_id = department_id}

RECURSIVE SetToSeq(_)
SetToSeq(S) ==
    IF S = {} THEN <<>>
    ELSE LET m == CHOOSE x \in S : \A y \in S : x <= y
         IN  <<m>> \o SetToSeq(S \ {m})

\* The while-loop of _get_descendant_ids, one iteration per call.  In a store
\* of n rows an acyclic walk pops at most n ids; a walk that is still going
\* after that is going round a cycle and never ends.
RECURSIVE descendant_loop(_, _, _, _)
descendant_loop(db, stack, result, fuel) ==
    IF stack = <<>> THEN [terminates |-> TRUE, result |-> result]
    ELSE IF fuel = 0 THEN [terminates |-> FALSE, result |-> result]
    ELSE LET current == stack[Len(stack)]
             rows == ChildrenOf(db, current)
         IN  descendant_loop(db,
                 SubSeq(stack, 1, Len(stack) - 1) \o SetToSeq(rows),
                 result \cup rows, fuel - 1)

\* The walk cut after its first iteration: the direct children only.
_get_descendant_ids_one_level(db, department_id) ==
    [terminates |-> TRUE, result |-> ChildrenOf(db, department_id)]

_get_descendant_ids(db, department_id) ==
    descendant_loop(db, <<department_id>>, {},
                    Cardinality(DOMAIN db.departments) + 1)

\* ---- get_department_tree
ord(c) == CASE c = " " -> 32 [] c = "a" -> 97 [] c = "b" -> 98

\* Python's str comparison: lexicographic, a proper prefix first.
RECURSIVE name_lt(_, _)
name_lt(x, y) ==
    IF y = <<>> THEN FALSE
    ELSE IF x = <<>> THEN TRUE
    ELSE IF ord(Head(x)) # ord(Head(y)) THEN ord(Head(x)) < ord(Head(y))
    ELSE name_lt(Tail(x), Tail(y))

\* sorted(dept.children, key=lambda c: (c.name, c.id))
RECURSIVE sorted_children(_, _)
sorted_children(db, S) ==
    IF S = {} THEN <<>>
    ELSE LET m == CHOOSE x \in S : \A y \in S \ {x} :
                      \/ name_lt(db.departments[x].name, db.departments[y].name)
                      \/ /\ db.departments[x].name = db.departments[y].name
                         /\ x < y
         IN  <<m>> \o sorted_children(db, S \ {m})

\* emps.sort(key=lambda e: (e.full_name, e.id)) for "full_name",
\* (e.created_at, e.id) otherwise.
employee_key_lt(db, x, y, sort_employees_by) ==
    IF sort_employees_by = "full_name"
    THEN \/ name_lt(db.employees[x].full_name, db.employees[y].full_name)
         \/ /\ db.employees[x].full_name = db.employees[y].full_name
            /\ x < y
    ELSE \/ db.employees[x].created_at < db.employees[y].created_at
         \/ /\ db.employees[x].created_at = db.employees[y].created_at
            /\ x < y

\* The employees in id order, whatever the key asked for.
sorted_employees_by_id(db, S, sort_employees_by) == SetToSeq(S)

RECURSIVE sorted_employees(_, _, _)
sorted_employees(db, S, sort_employees_by) ==
    IF S = {} THEN <<>>
    ELSE LET m == CHOOSE x \in S : \A y \in S \ {x} :
                      employee_key_lt(db, x, y, sort_employees_by)
         IN  <<m>> \o sorted_employees(db, S \ {m}, sort_employees_by)

EmployeeResponse(db, e) ==
    [id |-> e,
     department_id |-> db.employees[e].department_id,
     full_name |-> db.employees[e].full_name,
     created_at |-> db.employees[e].created_at]

DepartmentResponse(db, d) ==
    [id |-> d, name |-> db.departments[d].name,
     parent_id |-> db.departments[d].parent_id,
     created_at |-> db.departments[d].created_at]

\* _build_tree that still expands the children when no depth is left.
RECURSIVE _build_tree_one_deeper(_, _, _, _, _)
_build_tree_one_deeper(db, dept, current_depth, include_employees, sort_employees_by) ==
    LET emps == sorted_employees(db, EmployeesOf(db, dept), sort_employees_by)
        kids == sorted_children(db, ChildrenOf(db, dept))
    IN  [department |-> DepartmentResponse(db, dept),
         employees |->
             IF include_employees
             THEN [i \in 1..Len(emps) |-> EmployeeResponse(db, emps[i])]
             ELSE <<>>,
         children |->
             IF current_depth >= 0
             THEN [i \in 1..Len(kids) |->
                      _build_tree_one_deeper(db, kids[i], current_depth - 1,
                                  include_employees, sort_employees_by)]
             ELSE <<>>]

RECURSIVE _build_tree(_, _, _, _, _)
_build_tree(db, dept, current_depth, include_employees, sort_employees_by) ==
    LET emps == sorted_employees(db, EmployeesOf(db, dept), sort_employees_by)
        kids == sorted_children(db, ChildrenOf(db, dept))
    IN  [department |-> DepartmentResponse(db, dept),
         employees |->
             IF include_employees
             THEN [i \in 1..Len(emps) |-> EmployeeResponse(db, emps[i])]
             ELSE <<>>,
         children |->
             IF current_depth > 0
             THEN [i \in 1..Len(kids) |->
                      _build_tree(db, kids[i], current_depth - 1,
                                  include_employees, sort_employees_by)]
             ELSE <<>>]

get_department_tree(db, department_id, depth, include_employees, sort_employees_by) ==
    IF ~_get_department(db, department_id)
    THEN [result |-> "NotFound", tree |-> <<>>]
    ELSE [result |-> "ok",
          tree |-> _build_tree(db, department_id, depth, include_employees,
                               sort_employees_by)]

\* The check with the parent compared by "=": in SQL "parent_id = NULL"
\* matches no row, so roots are never found to clash.
_check_name_unique_sql_equals(db, name, parent_id, exclude_department_id) ==
    ~ \E d \in DOMAIN db.departments :
          /\ db.departments[d].name = name
          /\ parent_id # NULL
          /\ db.departments[d].parent_id = parent_id
          /\ (exclude_department_id # NULL => d # exclude_department_id)

\* The check without the exclusion: the row being updated counts as taken.
_check_name_unique_counts_self(db, name, parent_id, exclude_department_id) ==
    ~ \E d \in DOMAIN db.departments :
          /\ db.departments[d].name = name
          /\ db.departments[d].parent_id = parent_id

\* TRUE when the check passes, FALSE when it raises ConflictError.
\* "parent_id == None" is rendered IS NULL, so roots are compared too.
_check_name_unique_under_parent(db, name, parent_id, exclude_department_id) ==
    ~ \E d \in DOMAIN db.departments :
          /\ db.departments[d].name = name
          /\ db.departments[d].parent_id = parent_id
          /\ (exclude_department_id # NULL => d # exclude_department_id)

\* create_department without the look-up of the parent.
create_department_parent_unchecked(db, data, new_id) ==
    IF ~_check_name_unique_under_parent(db, data.name, data.parent_id, NULL)
    THEN Failed("Conflict", db)
    ELSE commit(db,
           [db EXCEPT !.departments =
               [d \in DOMAIN db.departments \cup {new_id} |->
                   IF d = new_id
                   THEN [name |-> data.name, parent_id |-> data.parent_id,
                         created_at |-> new_id]
                   ELSE db.departments[d]]])

\* created_at is the store's func.now() at the INSERT; the clock is read as
\* the tick of the id sequence.
create_department(db, data, new_id) ==
    IF data.parent_id # NULL /\ ~_get_department(db, data.parent_id)
    THEN Failed("NotFound", db)
    ELSE IF ~_check_name_unique_under_parent(db, data.name, data.parent_id, NULL)
    THEN Failed("Conflict", db)
    ELSE commit(db,
           [db EXCEPT !.departments =
               [d \in DOMAIN db.departments \cup {new_id} |->
                   IF d = new_id
                   THEN [name |-> data.name, parent_id |-> data.parent_id,
                         created_at |-> new_id]
                   ELSE db.departments[d]]])

\* create_employee with a uniqueness rule on (department_id, full_name,
\* position) that the code does not have.
create_employee_unique(db, department_id, data, new_id, now) ==
    IF ~_get_department(db, department_id)
    THEN Failed("NotFound", db)
    ELSE IF \E e \in EmployeesOf(db, department_id) :
                /\ db.employees[e].full_name = data.full_name
                /\ db.employees[e].position = data.position
    THEN Failed("Conflict", db)
    ELSE commit(db,
           [db EXCEPT !.employees =
               [e \in DOMAIN db.employees \cup {new_id} |->
                   IF e = new_id
                   THEN [department_id |-> department_id,
                         full_name |-> data.full_name,
                         position |-> data.position,
                         created_at |-> now]
                   ELSE db.employees[e]]])

create_employee(db, department_id, data, new_id, now) ==
    IF ~_get_department(db, department_id)
    THEN Failed("NotFound", db)
    ELSE commit(db,
           [db EXCEPT !.employees =
               [e \in DOMAIN db.employees \cup {new_id} |->
                   IF e = new_id
                   THEN [department_id |-> department_id,
                         full_name |-> data.full_name,
                         position |-> data.position,
                         created_at |-> now]
                   ELSE db.employees[e]]])

\* update_department with the new name flushed and committed before the
\* checks that can still reject the request.
update_department_early_commit(db, department_id, data) ==
    IF ~_get_department(db, department_id) THEN Failed("NotFound", db)
    ELSE
    LET department == db.departments[department_id]
        new_parent_id == IF data.parent_id # NULL THEN data.parent_id
                         ELSE department.parent_id
        new_name == IF data.name # NoName THEN data.name ELSE department.name
        renamed == [db EXCEPT !.departments[department_id].name = new_name]
        descendants == _get_descendant_ids(db, department_id)
    IN  IF new_parent_id = department_id THEN Failed("Conflict", renamed)
        ELSE IF new_parent_id # NULL /\ ~descendants.terminates
        THEN Failed("Hang", renamed)
        ELSE IF new_parent_id # NULL /\ new_parent_id \in descendants.result
        THEN Failed("Conflict", renamed)
        ELSE IF new_parent_id # NULL /\ ~_get_department(db, new_parent_id)
        THEN Failed("NotFound", renamed)
        ELSE IF ~_check_name_unique_under_parent(db, new_name, new_parent_id,
                                                 department_id)
        THEN Failed("Conflict", db)
        ELSE commit(db,
               [db EXCEPT !.departments[department_id] =
                   [@ EXCEPT !.name = new_name,
                             !.parent_id = new_parent_id]])

\* update_department on a created_at column declared with onupdate: the
\* UPDATE writes a later clock reading into it.
update_department_onupdate(db, department_id, data) ==
    IF ~_get_department(db, department_id) THEN Failed("NotFound", db)
    ELSE
    LET department == db.departments[department_id]
        new_parent_id == IF data.parent_id # NULL THEN data.parent_id
                         ELSE department.parent_id
        new_name == IF data.name # NoName THEN data.name ELSE department.name
        descendants == _get_descendant_ids(db, department_id)
    IN  IF new_parent_id = department_id THEN Failed("Conflict", db)
        ELSE IF new_parent_id # NULL /\ ~descendants.terminates
        THEN Failed("Hang", db)
        ELSE IF new_parent_id # NULL /\ new_parent_id \in descendants.result
        THEN Failed("Conflict", db)
        ELSE IF new_parent_id # NULL /\ ~_get_department(db, new_parent_id)
        THEN Failed("NotFound", db)
        ELSE IF ~_check_name_unique_under_parent(db, new_name, new_parent_id,
                                                 department_id)
        THEN Failed("Conflict", db)
        ELSE commit(db,
               [db EXCEPT !.departments[department_id] =
                   [@ EXCEPT !.name = new_name,
                             !.parent_id = new_parent_id,
                             !.created_at = @ + 1]])

update_department(db, department_id, data) ==
    IF ~_get_department(db, department_id) THEN Failed("NotFound", db)
    ELSE
    LET department == db.departments[department_id]
        new_parent_id == IF data.parent_id # NULL THEN data.parent_id
                         ELSE department.parent_id
        new_name == IF data.name # NoName THEN data.name ELSE department.name
        descendants == _get_descendant_ids(db, department_id)
    IN  IF new_parent_id = department_id THEN Failed("Conflict", db)
        ELSE IF new_parent_id # NULL /\ ~descendants.terminates
        THEN Failed("Hang", db)
        ELSE IF new_parent_id # NULL /\ new_parent_id \in descendants.result
        THEN Failed("Conflict", db)
        ELSE IF new_parent_id # NULL /\ ~_get_department(db, new_parent_id)
        THEN Failed("NotFound", db)
        ELSE IF ~_check_name_unique_under_parent(db, new_name, new_parent_id,
                                                 department_id)
        THEN Failed("Conflict", db)
        ELSE commit(db,
               [db EXCEPT !.departments[department_id] =
                   [@ EXCEPT !.name = new_name,
                             !.parent_id = new_parent_id]])

\* A cascade that stops at the direct children.
cascade_iterator_shallow(db, frontier, visited) ==
    UNION {ChildrenOf(db, d) : d \in frontier}

\* The cascade as it would run with the parent relationship cascading too:
\* it climbs to the parent and takes the whole tree.
RECURSIVE cascade_iterator_through_parent(_, _, _)
cascade_iterator_through_parent(db, frontier, visited) ==
    IF frontier = {} THEN visited
    ELSE LET found == (UNION {ChildrenOf(db, d) : d \in frontier}
                       \cup ({db.departments[d].parent_id : d \in frontier}
                                 \ {NULL})) \ visited
         IN  cascade_iterator_through_parent(db, found, visited \cup found)

\* Session.delete(department): the "all, delete-orphan" cascade walks the
\* children relationship, loading each collection from the session's view of
\* the store and skipping rows it has already visited.
RECURSIVE cascade_iterator(_, _, _)
cascade_iterator(db, frontier, visited) ==
    IF frontier = {} THEN visited
    ELSE LET found == UNION {ChildrenOf(db, d) : d \in frontier} \ visited
         IN  cascade_iterator(db, found, visited \cup found)

\* The rows a flush removes: the ORM deletes the marked departments and their
\* employees; the store's ON DELETE rules (employees: CASCADE, parent_id: SET
\* NULL) apply to any row that still points at a removed department.
delete_rows(db, gone) ==
    [departments |->
        [d \in DOMAIN db.departments \ gone |->
            IF db.departments[d].parent_id \in gone
            THEN [db.departments[d] EXCEPT !.parent_id = NULL]
            ELSE db.departments[d]],
     employees |->
        [e \in {x \in DOMAIN db.employees :
                    db.employees[x].department_id \notin gone} |->
            db.employees[e]]]

\* db.delete without the relationship cascade: the one row is deleted and
\* the store's ON DELETE SET NULL is left to deal with its children.
session_delete_set_null(old, db, department_id) ==
    {commit(old, delete_rows(db, {department_id}))}

\* A DELETE of the one row, with no cascade in the session and no ON DELETE
\* rule or foreign key in the store.
session_delete_row_only(old, db, department_id) ==
    {[result |-> "ok",
      db |-> [db EXCEPT !.departments =
                 [d \in DOMAIN db.departments \ {department_id} |->
                     db.departments[d]]]]}

\* db.delete(department); db.commit().  When the department is among its own
\* descendants the rows to delete depend on each other in a circle; the unit
\* of work may order them or give up (an unhandled error, nothing written).
session_delete(old, db, department_id) ==
    LET marked == cascade_iterator(db, {department_id}, {})
        done == commit(old, delete_rows(db, marked \cup {department_id}))
    IN  IF department_id \in marked
        THEN {done, Failed("ServerError", old)}
        ELSE {done}

\* Bulk UPDATEs that relink the whole subtree of the department, not only
\* the rows that point at it.
reassign_rows_deep(db, department_id, reassign_to_department_id) ==
    LET below == _get_descendant_ids(db, department_id).result
    IN  [departments |->
            [d \in DOMAIN db.departments |->
                IF d \in below
                THEN [db.departments[d] EXCEPT
                          !.parent_id = reassign_to_department_id]
                ELSE db.departments[d]],
         employees |->
            [e \in DOMAIN db.employees |->
                IF db.employees[e].department_id \in below \cup {department_id}
                THEN [db.employees[e] EXCEPT
                          !.department_id = reassign_to_department_id]
                ELSE db.employees[e]]]

\* The reassign branch without its first UPDATE: the employees stay on the
\* department and go with it (ON DELETE CASCADE).
reassign_rows_employees_left(db, department_id, reassign_to_department_id) ==
    [departments |->
        [d \in DOMAIN db.departments |->
            IF db.departments[d].parent_id = department_id
            THEN [db.departments[d] EXCEPT
                      !.parent_id = reassign_to_department_id]
            ELSE db.departments[d]],
     employees |-> db.employees]

\* The two bulk UPDATE statements of the reassign branch.
reassign_rows(db, department_id, reassign_to_department_id) ==
    [departments |->
        [d \in DOMAIN db.departments |->
            IF db.departments[d].parent_id = department_id
            THEN [db.departments[d] EXCEPT
                      !.parent_id = reassign_to_department_id]
            ELSE db.departments[d]],
     employees |->
        [e \in DOMAIN db.employees |->
            IF db.employees[e].department_id = department_id
            THEN [db.employees[e] EXCEPT
                      !.department_id = reassign_to_department_id]
            ELSE db.employees[e]]]

\* delete_department without the refusal of a target equal to the
\* department itself.
delete_department_self_target(db, department_id, mode, reassign_to_department_id) ==
    IF ~_get_department(db, department_id) THEN {Failed("NotFound", db)}
    ELSE IF mode = "cascade" THEN session_delete(db, db, department_id)
    ELSE IF mode = "reassign" THEN
        IF reassign_to_department_id = NULL THEN {Failed("BadRequest", db)}
        ELSE IF ~_get_department(db, reassign_to_department_id)
        THEN {Failed("NotFound", db)}
        ELSE LET moved == reassign_rows(db, department_id,
                                        reassign_to_department_id)
             IN  IF ~IntegrityOK(moved) THEN {Failed("ServerError", db)}
                 ELSE session_delete(db, moved, department_id)
    ELSE {Failed("BadRequest", db)}

\* The set of outcomes of one call.
delete_department(db, department_id, mode, reassign_to_department_id) ==
    IF ~_get_department(db, department_id) THEN {Failed("NotFound", db)}
    ELSE IF mode = "cascade" THEN session_delete(db, db, department_id)
    ELSE IF mode = "reassign" THEN
        IF reassign_to_department_id = NULL THEN {Failed("BadRequest", db)}
        ELSE IF ~_get_department(db, reassign_to_department_id)
        THEN {Failed("NotFound", db)}
        ELSE IF reassign_to_department_id = department_id
        THEN {Failed("Conflict", db)}
        ELSE LET moved == reassign_rows(db, department_id,
                                        reassign_to_department_id)
             IN  IF ~IntegrityOK(moved) THEN {Failed("ServerError", db)}
                 ELSE session_delete(db, moved, department_id)
    ELSE {Failed("BadRequest", db)}

\* ------------------------------------------------------------------- api
\* mode is a Literal query parameter (422 otherwise); the endpoint answers
\* 400 itself when mode=reassign comes without a target.
delete_department_endpoint(db, department_id, mode, reassign_to_department_id) ==
    IF mode \notin {"cascade", "reassign"} THEN {Failed("Validation", db)}
    ELSE IF mode = "reassign" /\ reassign_to_department_id = NULL
    THEN {Failed("BadRequest", db)}
    ELSE delete_department(db, department_id, mode, reassign_to_department_id)

post_department(db, body, new_id) ==
    LET data == DepartmentCreate(body)
    IN  IF data.valid THEN create_department(db, data, new_id)
        ELSE Failed("Validation", db)

post_employee(db, department_id, body, new_id, now) ==
    LET data == EmployeeCreate(body)
    IN  IF data.valid
        THEN create_employee(db, department_id, data, new_id, now)
        ELSE Failed("Validation", db)

patch_department(db, department_id, body) ==
    LET data == DepartmentUpdate(body)
    IN  IF data.valid THEN update_department(db, department_id, data)
        ELSE Failed("Validation", db)

\* depth is Query(1, ge=1, le=5): anything else is refused with 422;
\* sort_employees is a Literal of the two keys.
get_department(db, department_id, depth, include_employees, sort_employees) ==
    IF depth < MIN_DEPTH \/ depth > MAX_DEPTH
    THEN [result |-> "Validation", tree |-> <<>>]
    ELSE get_department_tree(db, department_id, depth, include_employees,
                             sort_employees)

\* POST bodies: a name (required) and a parent_id or null.
CreateBodies == [name : RawNames, parent_id : DeptIds \cup {NULL}]

\* ---------------------------------------------------------------- model
IdleSession ==
    [op |-> "idle", pc |-> "idle", id |-> NULL, name |-> NoName,
     target |-> NULL, moved_employees |-> {}, moved_children |-> {},
     marked |-> {}, nodes |-> {}, listed |-> {}, todo |-> <<>>,
     seen |-> {}, checked |-> FALSE, depth |-> 0,
     include_employees |-> FALSE, sort_employees_by |-> "none",
     response |-> <<>>, department |-> <<>>, result |-> "none"]

\* Spec: requests one at a time, on the schema of Base.metadata.create_all.
\* (The partial index only adds refusals, and no request that runs alone
\* reaches one: the service checks root names itself.)
Init ==
    /\ departments = <<>>
    /\ employees = <<>>
    /\ next_department_id = 1
    /\ next_employee_id = 1
    /\ uq_departments_name_root = FALSE
    /\ sessions = [w \in Workers |-> IdleSession]

PostDepartment ==
    \E body \in CreateBodies :
        \E out \in {post_department(Store, body, next_department_id)} :
            /\ out.result = "ok" => next_department_id <= MaxDepartments
            /\ departments' = out.db.departments
            /\ employees' = out.db.employees
            /\ next_department_id' =
                   IF out.result = "ok" THEN next_department_id + 1
                   ELSE next_department_id
            /\ UNCHANGED <<next_employee_id, uq_departments_name_root,
                           sessions>>

PostEmployee ==
    \E department_id \in DeptIds, body \in EmployeeBodies, now \in Times :
        \E out \in {post_employee(Store, department_id, body,
                                  next_employee_id, now)} :
            /\ out.result = "ok" => next_employee_id <= MaxEmployees
            /\ departments' = out.db.departments
            /\ employees' = out.db.employees
            /\ next_employee_id' =
                   IF out.result = "ok" THEN next_employee_id + 1
                   ELSE next_employee_id
            /\ UNCHANGED <<next_department_id, uq_departments_name_root,
                           sessions>>

PatchDepartment ==
    \E department_id \in DeptIds, body \in UpdateBodies :
        \E out \in {patch_department(Store, department_id, body)} :
            /\ departments' = out.db.departments
            /\ employees' = out.db.employees
            /\ UNCHANGED <<next_department_id, next_employee_id,
                           uq_departments_name_root, sessions>>

DeleteDepartment ==
    \E department_id \in DeptIds, mode \in Modes, target \in DeptIds \cup {NULL} :
        \E out \in delete_department_endpoint(Store, department_id, mode, target) :
            /\ departments' = out.db.departments
            /\ employees' = out.db.employees
            /\ UNCHANGED <<next_department_id, next_employee_id,
                           uq_departments_name_root, sessions>>

Next == PostDepartment \/ PostEmployee \/ PatchDepartment \/ DeleteDepartment

Spec == Init /\ [][Next]_vars

\* -------------------------------------------------------------- SpecConc
\* Each worker runs one request in its own session (get_db), one SQL
\* statement per step.  The engine is created without isolation_level, so on
\* PostgreSQL every statement reads the rows committed when it starts, and a
\* session's own writes stay private until its db.commit().

\* The stores the concurrent requests start from; each is what a few
\* requests, one at a time, leave behind:
\*   nothing;  one root;  a root with two children and an employee in one.
Scenarios ==
    { [departments |-> <<>>, employees |-> <<>>],
      [departments |-> (1 :> [name |-> <<"a">>, parent_id |-> NULL, created_at |-> 1]),
       employees |-> <<>>],
      [departments |-> (1 :> [name |-> <<"a">>, parent_id |-> NULL, created_at |-> 1])
                    @@ (2 :> [name |-> <<"a">>, parent_id |-> 1, created_at |-> 2])
                    @@ (3 :> [name |-> <<"b">>, parent_id |-> 1, created_at |-> 3]),
       employees |-> (1 :> [department_id |-> 2, full_name |-> <<"a">>,
                            position |-> <<"p">>, created_at |-> 1])] }

InitConc ==
    /\ \E s \in Scenarios :
          /\ departments = s.departments
          /\ employees = s.employees
          /\ next_department_id = Cardinality(DOMAIN s.departments) + 1
          /\ next_employee_id = Cardinality(DOMAIN s.employees) + 1
    /\ uq_departments_name_root \in BOOLEAN
    /\ sessions = [w \in Workers |-> IdleSession]

At(w, op, pc) == sessions[w].op = op /\ sessions[w].pc = pc

Step(w, fields) ==
    /\ sessions' = [sessions EXCEPT ![w] = fields @@ sessions[w]]
    /\ UNCHANGED <<departments, employees, next_department_id,
                   next_employee_id, uq_departments_name_root>>

Done(w, result) == Step(w, [pc |-> "done", result |-> result])

\* ---- POST /departments/ (create_department), statement by statement
StartCreate(w) ==
    \E body \in CreateBodies :
        \E data \in {DepartmentCreate(body)} :
            /\ At(w, "idle", "idle")
            /\ IF data.valid
               THEN Step(w, [op |-> "create", pc |-> "get_parent",
                             name |-> data.name, target |-> data.parent_id])
               ELSE Step(w, [op |-> "create", pc |-> "done",
                             result |-> "Validation"])

\* lines 73-76: the SELECT of the parent.
CreateGetParent(w) ==
    /\ At(w, "create", "get_parent")
    /\ IF sessions[w].target # NULL /\ ~_get_department(Store, sessions[w].target)
       THEN Done(w, "NotFound")
       ELSE Step(w, [pc |-> "check_name"])

\* line 77: the SELECT of _check_name_unique_under_parent.
CreateCheckName(w) ==
    /\ At(w, "create", "check_name")
    /\ IF _check_name_unique_under_parent(Store, sessions[w].name,
                                          sessions[w].target, NULL)
       THEN Step(w, [pc |-> "insert", checked |-> TRUE])
       ELSE Done(w, "Conflict")

\* The INSERT waits while another transaction holds an uncommitted row with
\* the same (name, parent_id) key.
insert_waits(w) ==
    \E v \in Workers \ {w} :
        /\ sessions[v].op = "reassign" /\ sessions[v].pc # "done"
        /\ sessions[v].target = sessions[w].target
        /\ \E c \in sessions[v].moved_children :
              departments[c].name = sessions[w].name

\* lines 78-83: db.add, db.commit (INSERT, COMMIT).  The sequence hands out
\* the id whether or not the INSERT is accepted; an IntegrityError reaches
\* no handler and the session is closed without a commit.
CreateInsert(w) ==
    /\ At(w, "create", "insert")
    /\ ~insert_waits(w)
    /\ next_department_id <= MaxDepartments
    /\ \E out \in {commit(Store,
                     [Store EXCEPT !.departments =
                         (next_department_id :>
                             [name |-> sessions[w].name,
                              parent_id |-> sessions[w].target,
                              created_at |-> next_department_id])
                         @@ departments])} :
          /\ departments' = out.db.departments
          /\ sessions' = [sessions EXCEPT ![w].pc = "done",
                                          ![w].id = next_department_id,
                                          ![w].result = out.result]
    /\ next_department_id' = next_department_id + 1
    /\ UNCHANGED <<employees, next_employee_id, uq_departments_name_root>>

\* ---- DELETE /departments/{id}?mode=reassign, statement by statement
\* What the statements of session w read: the committed rows, with the rows
\* its own bulk UPDATEs have rewritten.
View(w) ==
    [departments |->
        [d \in DOMAIN departments |->
            IF d \in sessions[w].moved_children
            THEN [departments[d] EXCEPT !.parent_id = sessions[w].target]
            ELSE departments[d]],
     employees |->
        [e \in DOMAIN employees |->
            IF e \in sessions[w].moved_employees
            THEN [employees[e] EXCEPT !.department_id = sessions[w].target]
            ELSE employees[e]]]

\* The workload keeps one reassign-delete in flight at a time, so the row
\* locks its UPDATEs take are never waited for by another UPDATE.
StartDelete(w) ==
    \E department_id \in DeptIds, target \in DeptIds :
        /\ At(w, "idle", "idle")
        /\ \A v \in Workers : sessions[v].op = "reassign" => sessions[v].pc = "done"
        /\ Step(w, [op |-> "reassign", pc |-> "get_department",
                    id |-> department_id, target |-> target])

\* lines 206-208
DeleteGetDepartment(w) ==
    /\ At(w, "reassign", "get_department")
    /\ IF _get_department(Store, sessions[w].id)
       THEN Step(w, [pc |-> "get_target"])
       ELSE Done(w, "NotFound")

\* lines 219-223
DeleteGetTarget(w) ==
    /\ At(w, "reassign", "get_target")
    /\ IF ~_get_department(Store, sessions[w].target) THEN Done(w, "NotFound")
       ELSE IF sessions[w].target = sessions[w].id THEN Done(w, "Conflict")
       ELSE Step(w, [pc |-> "update_employees"])

\* lines 226-230: UPDATE employees SET department_id = target.
DeleteUpdateEmployees(w) ==
    /\ At(w, "reassign", "update_employees")
    /\ IF _get_department(Store, sessions[w].target)
       THEN Step(w, [pc |-> "update_departments",
                     moved_employees |-> EmployeesOf(Store, sessions[w].id)])
       ELSE Done(w, "ServerError")

\* lines 231-235: UPDATE departments SET parent_id = target.  A clash with
\* uq_department_name_parent fails the statement; the session is closed
\* without a commit and the first UPDATE is rolled back with it.
DeleteUpdateDepartments(w) ==
    /\ At(w, "reassign", "update_departments")
    /\ \E rows \in {ChildrenOf(Store, sessions[w].id)} :
          IF /\ _get_department(Store, sessions[w].target)
             /\ uq_department_name_parent(
                    reassign_rows(Store, sessions[w].id,
                                  sessions[w].target).departments)
          THEN Step(w, [pc |-> "delete", moved_children |-> rows])
          ELSE Step(w, [pc |-> "done", result |-> "ServerError",
                        moved_employees |-> {}])

\* line 236: db.delete(department) loads department.children (and theirs)
\* for the cascade.
DeleteMark(w) ==
    /\ At(w, "reassign", "delete")
    /\ Step(w, [pc |-> "commit",
                marked |-> cascade_iterator(View(w), {sessions[w].id}, {})])

\* line 237: db.commit() flushes the DELETEs and commits them together with
\* the two UPDATEs.
DeleteCommit(w) ==
    /\ At(w, "reassign", "commit")
    /\ \E out \in {commit(Store,
                     delete_rows(View(w),
                                 sessions[w].marked \cup {sessions[w].id}))} :
          /\ departments' = out.db.departments
          /\ employees' = out.db.employees
          /\ sessions' = [sessions EXCEPT
                 ![w].pc = "done",
                 ![w].result = out.result,
                 ![w].moved_employees =
                     IF out.result = "ok" THEN @ ELSE {},
                 ![w].moved_children =
                     IF out.result = "ok" THEN @ ELSE {}]
    /\ UNCHANGED <<next_department_id, next_employee_id,
                   uq_departments_name_root>>

\* ---- GET /departments/{id} (get_department_tree, depth = 1)
StartTree(w) ==
    \E department_id \in DeptIds :
        /\ At(w, "idle", "idle")
        /\ Step(w, [op |-> "tree", pc |-> "get_department",
                    id |-> department_id])

\* lines 120-122
TreeGetDepartment(w) ==
    /\ At(w, "tree", "get_department")
    /\ IF _get_department(Store, sessions[w].id)
       THEN Step(w, [pc |-> "employees", nodes |-> {sessions[w].id},
                     seen |-> {Store}])
       ELSE Done(w, "NotFound")

\* line 127, at the root: the lazy load of dept.employees.
TreeEmployees(w) ==
    /\ At(w, "tree", "employees")
    /\ Step(w, [pc |-> "children",
                listed |-> {<<sessions[w].id, e>> :
                               e \in EmployeesOf(Store, sessions[w].id)},
                seen |-> sessions[w].seen \cup {Store}])

\* lines 134-135: the lazy load of dept.children, sorted.
TreeChildren(w) ==
    /\ At(w, "tree", "children")
    /\ \E rows \in {ChildrenOf(Store, sessions[w].id)} :
          Step(w, [pc |-> IF rows = {} THEN "done" ELSE "child_employees",
                   result |-> IF rows = {} THEN "ok" ELSE "none",
                   nodes |-> sessions[w].nodes \cup rows,
                   todo |-> sorted_children(Store, rows),
                   seen |-> sessions[w].seen \cup {Store}])

\* line 136: _build_tree(child, 0) loads the child's employees; the child
\* itself is the object loaded with the children.
TreeChildEmployees(w) ==
    /\ At(w, "tree", "child_employees")
    /\ \E child \in {Head(sessions[w].todo)}, rest \in {Tail(sessions[w].todo)} :
          Step(w, [pc |-> IF rest = <<>> THEN "done" ELSE "child_employees",
                   result |-> IF rest = <<>> THEN "ok" ELSE "none",
                   listed |-> sessions[w].listed \cup
                                 {<<child, e>> : e \in EmployeesOf(Store, child)},
                   todo |-> rest,
                   seen |-> sessions[w].seen \cup {Store}])

NextConc ==
    \E w \in Workers :
        \/ StartCreate(w) \/ CreateGetParent(w) \/ CreateCheckName(w)
        \/ CreateInsert(w)
        \/ StartDelete(w) \/ DeleteGetDepartment(w) \/ DeleteGetTarget(w)
        \/ DeleteUpdateEmployees(w) \/ DeleteUpdateDepartments(w)
        \/ DeleteMark(w) \/ DeleteCommit(w)
        \/ StartTree(w) \/ TreeGetDepartment(w) \/ TreeEmployees(w)
        \/ TreeChildren(w) \/ TreeChildEmployees(w)

SpecConc == InitConc /\ [][NextConc]_vars

\* ------------------------------------------------------------ SpecUpdate
\* Two workers, each running one PATCH /departments/{id} (update_department)
\* statement by statement.  No statement of it locks a row before the flush
\* inside db.commit(), and the flush writes one row and commits at once, so
\* no worker ever waits for the other.
StartUpdate(w) ==
    \E department_id \in DeptIds, body \in UpdateBodies :
        \E data \in {DepartmentUpdate(body)} :
            /\ At(w, "idle", "idle")
            /\ IF data.valid
               THEN Step(w, [op |-> "update", pc |-> "get_department",
                             id |-> department_id, name |-> data.name,
                             target |-> data.parent_id])
               ELSE Step(w, [op |-> "update", pc |-> "done",
                             result |-> "Validation"])

\* lines 152-160: the SELECT of the department; the defaults and the
\* self-parent test are computed from the object it loaded.
UpdateGetDepartment(w) ==
    /\ At(w, "update", "get_department")
    /\ IF ~_get_department(Store, sessions[w].id) THEN Done(w, "NotFound")
       ELSE LET department == departments[sessions[w].id]
                new_parent_id == IF sessions[w].target # NULL
                                 THEN sessions[w].target
                                 ELSE department.parent_id
                new_name == IF sessions[w].name # NoName THEN sessions[w].name
                            ELSE department.name
            IN  IF new_parent_id = sessions[w].id THEN Done(w, "Conflict")
                ELSE Step(w, [pc |-> IF new_parent_id # NULL
                                     THEN "descendants" ELSE "check_name",
                              department |-> department,
                              name |-> new_name, target |-> new_parent_id,
                              todo |-> <<sessions[w].id>>, nodes |-> {}])

\* lines 41-48 and 163-166: one iteration of the while-loop (one SELECT of
\* the children of the id popped); when the stack is empty the membership
\* test follows.
UpdateDescendants(w) ==
    /\ At(w, "update", "descendants")
    /\ LET stack == sessions[w].todo
           current == stack[Len(stack)]
           rows == ChildrenOf(Store, current)
           rest == SubSeq(stack, 1, Len(stack) - 1) \o SetToSeq(rows)
           result == sessions[w].nodes \cup rows
       IN  IF rest # <<>> THEN Step(w, [todo |-> rest, nodes |-> result])
           ELSE IF sessions[w].target \in result THEN Done(w, "Conflict")
           ELSE Step(w, [pc |-> "get_parent", todo |-> rest,
                         nodes |-> result, checked |-> TRUE])

\* lines 167-169: the SELECT of the new parent.
UpdateGetParent(w) ==
    /\ At(w, "update", "get_parent")
    /\ IF _get_department(Store, sessions[w].target)
       THEN Step(w, [pc |-> "check_name"])
       ELSE Done(w, "NotFound")

\* lines 171-173: the SELECT of _check_name_unique_under_parent.
UpdateCheckName(w) ==
    /\ At(w, "update", "check_name")
    /\ IF _check_name_unique_under_parent(Store, sessions[w].name,
                                          sessions[w].target, sessions[w].id)
       THEN Step(w, [pc |-> "commit"])
       ELSE Done(w, "Conflict")

\* lines 175-177: db.commit() flushes one UPDATE ... WHERE id = :id that sets
\* the attributes whose value differs from the one loaded, and commits.  A
\* refused UPDATE (IntegrityError) reaches no handler.
UpdateCommit(w) ==
    /\ At(w, "update", "commit")
    /\ LET id == sessions[w].id
           row == [departments[id] EXCEPT
                      !.name =
                          IF sessions[w].name # sessions[w].department.name
                          THEN sessions[w].name ELSE @,
                      !.parent_id =
                          IF sessions[w].target # sessions[w].department.parent_id
                          THEN sessions[w].target ELSE @]
       IN  \E out \in {commit(Store, [Store EXCEPT !.departments[id] = row])} :
               /\ departments' = out.db.departments
               /\ sessions' = [sessions EXCEPT ![w].pc = "done",
                                               ![w].result = out.result]
    /\ UNCHANGED <<employees, next_department_id, next_employee_id,
                   uq_departments_name_root>>

NextUpdate ==
    \E w \in Workers :
        \/ StartUpdate(w) \/ UpdateGetDepartment(w) \/ UpdateDescendants(w)
        \/ UpdateGetParent(w) \/ UpdateCheckName(w) \/ UpdateCommit(w)

SpecUpdate == InitConc /\ [][NextUpdate]_vars

\* -------------------------------------------------------------- SpecTree
\* Stores that a few creates leave behind: three departments (two children
\* whose names sort against their ids; a chain; two roots), and
\* MaxTreeEmployees employees in departments 1 and 2, with every combination
\* of names and creation times.
TreeDepartments ==
    { (1 :> [name |-> <<"a">>, parent_id |-> NULL, created_at |-> 1])
        @@ (2 :> [name |-> <<"b">>, parent_id |-> 1, created_at |-> 2])
        @@ (3 :> [name |-> <<"a">>, parent_id |-> 1, created_at |-> 3]),
      (1 :> [name |-> <<"a">>, parent_id |-> NULL, created_at |-> 1])
        @@ (2 :> [name |-> <<"a">>, parent_id |-> 1, created_at |-> 2])
        @@ (3 :> [name |-> <<"a">>, parent_id |-> 2, created_at |-> 3]),
      (1 :> [name |-> <<"b">>, parent_id |-> NULL, created_at |-> 1])
        @@ (2 :> [name |-> <<"a">>, parent_id |-> NULL, created_at |-> 2])
        @@ (3 :> [name |-> <<"b">>, parent_id |-> 2, created_at |-> 3]) }

TreeEmployeeRows ==
    [department_id : {1, 2}, full_name : {<<"a">>, <<"b">>},
     position : {<<"p">>}, created_at : Times]

InitTree ==
    /\ departments \in TreeDepartments
    /\ employees \in [1..MaxTreeEmployees -> TreeEmployeeRows]
    /\ next_department_id = 4
    /\ next_employee_id = MaxTreeEmployees + 1
    /\ uq_departments_name_root = FALSE
    /\ sessions = [w \in Workers |-> IdleSession]

\* GET /departments/{id}: one request, read as a whole.
GetDepartment(w) ==
    \E department_id \in DOMAIN departments \cup {next_department_id},
       depth \in 0..MaxDepth, include_employees \in BOOLEAN,
       sort_employees \in {"created_at", "full_name"} :
        \E out \in {get_department(Store, department_id, depth,
                                   include_employees, sort_employees)} :
            /\ \A v \in Workers : sessions[v] = IdleSession
            /\ Step(w, [op |-> "tree", pc |-> "done", id |-> department_id,
                        depth |-> depth,
                        include_employees |-> include_employees,
                        sort_employees_by |-> sort_employees,
                        response |-> out.tree, result |-> out.result])

NextTree == \E w \in Workers : GetDepartment(w)

SpecTree == InitTree /\ [][NextTree]_vars

\* ------------------------------------------------------------ vocabulary
\* a is reached from d by one or more parent steps (at most fuel of them).
RECURSIVE AncestorWithin(_, _, _, _)
AncestorWithin(depts, a, d, fuel) ==
    /\ fuel > 0
    /\ d \in DOMAIN depts
    /\ depts[d].parent_id # NULL
    /\ \/ depts[d].parent_id = a
       \/ AncestorWithin(depts, a, depts[d].parent_id, fuel - 1)

IsAncestor(depts, a, d) ==
    AncestorWithin(depts, a, d, Cardinality(DOMAIN depts))

Descendants(depts, d) == {x \in DOMAIN depts : IsAncestor(depts, d, x)}

Acyclic(depts) == \A d \in DOMAIN depts : ~IsAncestor(depts, d, d)

ValidCreates == {d \in {DepartmentCreate(b) : b \in CreateBodies} : d.valid}

ValidUpdates == {d \in {DepartmentUpdate(b) : b \in UpdateBodies} : d.valid}

Rejections == {"NotFound", "Conflict", "BadRequest", "Validation"}

\* ---------------------------------------------------------------- claims
\* C1: in every reachable store the parent relation is acyclic: no
\* department is its own ancestor, none has its own id as parent_id.
C1_CycleFreedom == Acyclic(departments)

\* C1, the failing case: a department that is its own parent.
C1_SelfParent ==
    \E d \in DOMAIN departments : departments[d].parent_id = d

\* C2: two distinct departments with the same parent_id (null included)
\* never have the same name.
C2_SiblingNamesUnique ==
    \A x, y \in DOMAIN departments :
        (x # y /\ departments[x].parent_id = departments[y].parent_id)
            => departments[x].name # departments[y].name

\* C2, its case: a reassign-delete would put a child of the deleted
\* department next to a child of the target with the same name, and the
\* store's constraint is what refuses it.
C2_Witness ==
    \E D, T \in DOMAIN departments :
        \E c \in ChildrenOf(Store, D), t \in ChildrenOf(Store, T) :
            /\ c # t
            /\ departments[c].name = departments[t].name
            /\ delete_department(Store, D, "reassign", T)
                   = {Failed("ServerError", Store)}

\* getTree(id) answers NotFound.
getTree_NotFound(db, department_id) == ~_get_department(db, department_id)

\* C3: a successful reassign-delete of D with target T leaves D unresolvable,
\* every employee that was in D in T, and every department whose parent_id
\* was D with parent_id T.
C3_ReassignDeletePost ==
    \A D \in DOMAIN departments, T \in DeptIds :
        \A out \in delete_department_endpoint(Store, D, "reassign", T) :
            out.result = "ok" =>
                /\ getTree_NotFound(out.db, D)
                /\ \A e \in EmployeesOf(Store, D) :
                      /\ e \in DOMAIN out.db.employees
                      /\ out.db.employees[e].department_id = T
                /\ \A c \in ChildrenOf(Store, D) :
                      /\ c \in DOMAIN out.db.departments
                      /\ out.db.departments[c].parent_id = T

\* C3 on the stores C1 allows.
C3_OnAcyclicStores == Acyclic(departments) => C3_ReassignDeletePost

\* C4: a successful cascade-delete of D removes D, every transitive
\* descendant of D and every employee of any of them; no remaining employee
\* refers to a removed department and no former descendant resolves.
C4_CascadeDeletePost ==
    \A D \in DOMAIN departments, T \in DeptIds \cup {NULL} :
        \A out \in delete_department_endpoint(Store, D, "cascade", T) :
            out.result = "ok" =>
                LET gone == {D} \cup Descendants(departments, D)
                IN  /\ \A x \in gone : getTree_NotFound(out.db, x)
                    /\ \A e \in DOMAIN employees :
                          employees[e].department_id \in gone
                              => e \notin DOMAIN out.db.employees
                    /\ \A e \in DOMAIN out.db.employees :
                          out.db.employees[e].department_id
                              \in DOMAIN out.db.departments

\* C4, its case: D has a child, the child has a child with an employee, and
\* the cascade-delete of D succeeds and removes all three and the employee.
C4_Witness ==
    \E D, c, g \in DOMAIN departments, e \in DOMAIN employees :
        /\ departments[c].parent_id = D
        /\ departments[g].parent_id = c
        /\ employees[e].department_id = g
        /\ Acyclic(departments)
        /\ \E out \in delete_department_endpoint(Store, D, "cascade", NULL) :
              /\ out.result = "ok"
              /\ {D, c, g} \cap DOMAIN out.db.departments = {}
              /\ e \notin DOMAIN out.db.employees

\* The outcomes of every request a client can send in the current state.
AllOutcomes ==
    {post_department(Store, b, next_department_id) : b \in CreateBodies}
    \cup {post_employee(Store, d, b, next_employee_id, t) :
              d \in DeptIds, b \in EmployeeBodies, t \in Times}
    \cup {patch_department(Store, d, b) : d \in DeptIds, b \in UpdateBodies}
    \cup UNION {delete_department_endpoint(Store, d, m, t) :
                    d \in DeptIds, m \in Modes, t \in DeptIds \cup {NULL}}

\* C5: a request answered NotFound, Conflict or with a caller-input error
\* (400, 422) leaves departments and employees exactly as they were.
C5_NoPartialWrites ==
    \A out \in AllOutcomes : out.result \in Rejections => out.db = Store

\* C5, its case: a store with a child department and an employee, where each
\* kind of rejection is the answer to some request.
C5_Witness ==
    /\ \E d \in DOMAIN departments : departments[d].parent_id # NULL
    /\ employees # <<>>
    /\ \A kind \in Rejections : \E out \in AllOutcomes : out.result = kind

\* The tree getTree(root, depth = 1) shows when it reads one store.
TreeView(db, root) ==
    LET shown == {root} \cup ChildrenOf(db, root)
    IN  [nodes |-> shown,
         listed |-> {<<d, e>> \in shown \X DOMAIN db.employees :
                        db.employees[e].department_id = d}]

\* C6: a getTree that runs while a reassign-delete runs observes no
\* intermediate state: the tree it returns is the tree of one of the stores
\* that were committed while it ran (the relinks and the removal of the row
\* all visible, or none of them).
C6_NoIntermediateView ==
    \A w \in Workers :
        (At(w, "tree", "done") /\ sessions[w].result = "ok") =>
            \E s \in sessions[w].seen :
                TreeView(s, sessions[w].id) =
                    [nodes |-> sessions[w].nodes, listed |-> sessions[w].listed]

\* C6, the part that holds: the two relinks and the removal are committed
\* in one step; the committed store never holds a relinked row while the
\* department row is still there.
C6_CommittedTogether ==
    \A w \in Workers :
        sessions[w].op = "reassign" =>
            IF sessions[w].pc = "done" /\ sessions[w].result = "ok"
            THEN sessions[w].id \notin DOMAIN departments
            ELSE /\ \A e \in sessions[w].moved_employees :
                       employees[e].department_id = sessions[w].id
                 /\ \A c \in sessions[w].moved_children :
                       departments[c].parent_id = sessions[w].id

\* C6, the failing case: the returned tree shows the source department as a
\* node and one of its former employees under the target.
C6_HalfRelinkedTree ==
    \E w, v \in Workers :
        /\ At(w, "tree", "done") /\ sessions[w].result = "ok"
        /\ At(v, "reassign", "done") /\ sessions[v].result = "ok"
        /\ sessions[v].id \in sessions[w].nodes
        /\ \E e \in sessions[v].moved_employees :
              <<sessions[v].target, e>> \in sessions[w].listed

\* C7: two concurrent creates for one (name, parent_id) slot that both pass
\* the uniqueness check before either inserts end with exactly one
\* department in the slot, one request accepted and the other answered
\* Conflict.
C7_RacingCreates ==
    \A w, v \in Workers :
        (/\ w # v
         /\ At(w, "create", "done") /\ At(v, "create", "done")
         /\ sessions[w].checked /\ sessions[v].checked
         /\ sessions[w].name = sessions[v].name
         /\ sessions[w].target = sessions[v].target)
        => /\ Cardinality({d \in DOMAIN departments :
                              /\ departments[d].name = sessions[w].name
                              /\ departments[d].parent_id = sessions[w].target})
                = 1
           /\ {sessions[w].result, sessions[v].result} = {"ok", "Conflict"}

\* C7, the failing cases: the loser is answered with a server error, or
\* (roots, without the partial index) both rows are stored.
C7_LoserServerError ==
    \E w, v \in Workers :
        /\ At(w, "create", "done") /\ At(v, "create", "done")
        /\ sessions[w].name = sessions[v].name
        /\ sessions[w].target = sessions[v].target
        /\ sessions[w].result = "ok" /\ sessions[v].result = "ServerError"

C7_BothStored ==
    \E w, v \in Workers :
        /\ w # v
        /\ At(w, "create", "done") /\ At(v, "create", "done")
        /\ sessions[w].result = "ok" /\ sessions[v].result = "ok"
        /\ departments[sessions[w].id] = departments[sessions[v].id]

\* The new parent an update works with (service, lines 156-157).
EffectiveParent(D, data) ==
    IF data.parent_id # NULL THEN data.parent_id ELSE departments[D].parent_id

\* C8: an update of D whose effective new parent is D or a transitive
\* descendant of D fails with Conflict and leaves the store as it was.
C8_UpdateRejectsCycles ==
    \A D \in DOMAIN departments, data \in ValidUpdates :
        (EffectiveParent(D, data) \in {D} \cup Descendants(departments, D))
            => update_department(Store, D, data) = Failed("Conflict", Store)

\* C8 on the stores C1 allows.
C8_OnAcyclicStores == Acyclic(departments) => C8_UpdateRejectsCycles

\* C9: create under a parent_id that names no department fails with NotFound
\* and adds nothing, whatever the name; a create with a parent_id succeeds
\* only when the parent exists.
C9_CreateMissingParent ==
    \A data \in ValidCreates :
        LET out == create_department(Store, data, next_department_id)
        IN  /\ (data.parent_id # NULL
                  /\ data.parent_id \notin DOMAIN departments)
                => out = Failed("NotFound", Store)
            /\ (out.result = "ok" /\ data.parent_id # NULL)
                => data.parent_id \in DOMAIN departments

\* C9, its case: the parent named was deleted earlier (its id was issued and
\* resolves no more) while other departments exist, and create says NotFound.
C9_Witness ==
    \E data \in ValidCreates :
        /\ data.parent_id # NULL
        /\ data.parent_id < next_department_id
        /\ data.parent_id \notin DOMAIN departments
        /\ departments # <<>>
        /\ create_department(Store, data, next_department_id).result
               = "NotFound"

\* C10: create fails with Conflict and adds nothing when the name is taken
\* under the same parent_id (null included); a name taken only under other
\* parents is accepted.
C10_CreateDuplicateName ==
    \A data \in ValidCreates :
        (data.parent_id = NULL \/ data.parent_id \in DOMAIN departments) =>
            LET out == create_department(Store, data, next_department_id)
                taken == \E d \in DOMAIN departments :
                            /\ departments[d].name = data.name
                            /\ departments[d].parent_id = data.parent_id
            IN  /\ taken => out = Failed("Conflict", Store)
                /\ ~taken =>
                      /\ out.result = "ok"
                      /\ DOMAIN out.db.departments =
                             DOMAIN departments \cup {next_department_id}
                      /\ out.db.departments[next_department_id] =
                             [name |-> data.name, parent_id |-> data.parent_id,
                              created_at |-> next_department_id]

\* C10, its case: one name is taken among the roots and under a parent, and
\* free under another parent: the first two creates conflict, the third
\* succeeds.
C10_Witness ==
    \E n \in {d.name : d \in ValidCreates}, p, q \in DOMAIN departments :
        /\ p # q
        /\ next_department_id <= MaxDepartments
        /\ create_department(Store, [valid |-> TRUE, name |-> n,
               parent_id |-> NULL], next_department_id).result = "Conflict"
        /\ create_department(Store, [valid |-> TRUE, name |-> n,
               parent_id |-> p], next_department_id).result = "Conflict"
        /\ create_department(Store, [valid |-> TRUE, name |-> n,
               parent_id |-> q], next_department_id).result = "ok"

\* The new name an update works with (service, line 157).
EffectiveName(D, data) ==
    IF data.name # NoName THEN data.name ELSE departments[D].name

\* A department other than D holds the effective (name, parent) pair.
TakenByAnother(D, data) ==
    \E x \in DOMAIN departments \ {D} :
        /\ departments[x].name = EffectiveName(D, data)
        /\ departments[x].parent_id = EffectiveParent(D, data)

\* The update that sends D's current name and parent back.
Resubmission(D) ==
    [valid |-> TRUE, name |-> departments[D].name,
     parent_id |-> departments[D].parent_id]

C12_UpdateDefaults ==
    \A D \in DOMAIN departments, body \in UpdateBodies :
        LET out == patch_department(Store, D, body)
        IN  out.result = "ok" =>
                /\ body.parent_id = Absent =>
                      out.db.departments[D].parent_id = departments[D].parent_id
                /\ ~body.has_name =>
                      out.db.departments[D].name = departments[D].name
                /\ body.parent_id = NULL =>
                      out.db.departments[D].parent_id = NULL

\* C12, the part that holds: omitted fields keep their current values.
C12_OmittedFieldsKept ==
    \A D \in DOMAIN departments, body \in UpdateBodies :
        LET out == patch_department(Store, D, body)
        IN  out.result = "ok" =>
                /\ body.parent_id = Absent =>
                      out.db.departments[D].parent_id = departments[D].parent_id
                /\ ~body.has_name =>
                      out.db.departments[D].name = departments[D].name

\* C12, the failing case: an explicit null parent_id sent for a non-root
\* department is accepted and the department keeps its parent.
C12_NullParentIgnored ==
    \E D \in DOMAIN departments :
        /\ departments[D].parent_id # NULL
        /\ Acyclic(departments)
        /\ \E out \in {patch_department(Store, D,
                          [has_name |-> FALSE, name |-> NoName,
                           parent_id |-> NULL])} :
              /\ out.result = "ok"
              /\ out.db.departments[D].parent_id = departments[D].parent_id

\* C13: a successful reassign-delete of D removes no department but D and
\* no employee, changes the parent_id only of rows whose parent_id was D and
\* the department_id only of employees whose department_id was D: deeper
\* descendants and their employees keep theirs.
C13_ReassignDeleteShallow ==
    \A D \in DOMAIN departments, T \in DeptIds :
        \A out \in delete_department_endpoint(Store, D, "reassign", T) :
            out.result = "ok" =>
                /\ DOMAIN out.db.departments = DOMAIN departments \ {D}
                /\ \A x \in DOMAIN out.db.departments :
                      x \notin ChildrenOf(Store, D)
                          => out.db.departments[x] = departments[x]
                /\ \A e \in DOMAIN employees :
                      e \notin EmployeesOf(Store, D)
                          => /\ e \in DOMAIN out.db.employees
                             /\ out.db.employees[e] = employees[e]

\* C13, its case: D has a child with an employee and a grandchild; the
\* reassign-delete of D succeeds, moves the child and leaves the grandchild
\* under the child and the employee in the child.
C13_Witness ==
    \E D, c, g \in DOMAIN departments, e \in DOMAIN employees :
        /\ departments[c].parent_id = D
        /\ departments[g].parent_id = c
        /\ employees[e].department_id = c
        /\ Acyclic(departments)
        /\ \E T \in DeptIds :
              \E out \in delete_department_endpoint(Store, D, "reassign", T) :
                  /\ out.result = "ok"
                  /\ out.db.departments[c].parent_id = T
                  /\ out.db.departments[g].parent_id = c
                  /\ out.db.employees[e].department_id = c

\* Every employee of the store is still there, with the same row.
EmployeesKept(out) ==
    \A e \in DOMAIN employees :
        e \in DOMAIN out.db.employees /\ out.db.employees[e] = employees[e]

\* C14: an employee is removed only by a cascade-delete of its department or
\* of an ancestor of it; a reassign-delete removes no employee and changes
\* the department_id of the employees of the deleted department only; no
\* other request removes or moves an employee.
C14_EmployeeLifecycle ==
    /\ \A b \in CreateBodies :
          EmployeesKept(post_department(Store, b, next_department_id))
    /\ \A d \in DeptIds, b \in EmployeeBodies, t \in Times :
          EmployeesKept(post_employee(Store, d, b, next_employee_id, t))
    /\ \A d \in DeptIds, b \in UpdateBodies :
          EmployeesKept(patch_department(Store, d, b))
    /\ \A D \in DeptIds, T \in DeptIds \cup {NULL} :
          /\ \A out \in delete_department_endpoint(Store, D, "invalid", T) :
                EmployeesKept(out)
          /\ \A out \in delete_department_endpoint(Store, D, "cascade", T) :
                \A e \in DOMAIN employees :
                    IF e \in DOMAIN out.db.employees
                    THEN out.db.employees[e] = employees[e]
                    ELSE /\ out.result = "ok"
                         /\ employees[e].department_id
                                \in {D} \cup Descendants(departments, D)
          /\ \A out \in delete_department_endpoint(Store, D, "reassign", T) :
                /\ DOMAIN out.db.employees = DOMAIN employees
                /\ \A e \in DOMAIN employees :
                      out.db.employees[e] # employees[e]
                          => /\ out.result = "ok"
                             /\ employees[e].department_id = D
                             /\ out.db.employees[e].department_id = T

\* C14, its case: an employee in a child c of D; the cascade-delete of D
\* removes it, the reassign-delete of c moves it to D, the reassign-delete
\* of D leaves it where it is.
C14_Witness ==
    \E D, c \in DOMAIN departments, e \in DOMAIN employees :
        /\ departments[c].parent_id = D
        /\ departments[D].parent_id # NULL
        /\ employees[e].department_id = c
        /\ Acyclic(departments)
        /\ \E out \in delete_department_endpoint(Store, D, "cascade", NULL) :
              out.result = "ok" /\ e \notin DOMAIN out.db.employees
        /\ \E out \in delete_department_endpoint(Store, c, "reassign", D) :
              out.result = "ok" /\ out.db.employees[e].department_id = D
        /\ \E out \in delete_department_endpoint(Store, D, "reassign",
                                                 departments[D].parent_id) :
              out.result = "ok" /\ out.db.employees[e].department_id = c

\* C15: delete of an id that resolves to no department answers NotFound,
\* for every mode value and every reassign_to_department_id, the omitted
\* one included, and writes nothing.
C15_DeleteMissingNotFound ==
    \A D \in DeptIds \ DOMAIN departments, mode \in Modes,
       T \in DeptIds \cup {NULL} :
        delete_department_endpoint(Store, D, mode, T)
            = {Failed("NotFound", Store)}

\* C15, the part that holds: delete_department itself looks the department
\* up first, and the endpoint does so whenever it calls it.
C15_ServiceNotFound ==
    \A D \in DeptIds \ DOMAIN departments, mode \in Modes,
       T \in DeptIds \cup {NULL} :
        /\ delete_department(Store, D, mode, T) = {Failed("NotFound", Store)}
        /\ (mode = "cascade" \/ (mode = "reassign" /\ T # NULL))
              => delete_department_endpoint(Store, D, mode, T)
                     = {Failed("NotFound", Store)}

\* C15, the failing case: a missing department, mode=reassign, no target,
\* and the answer is the 400 of the endpoint.
C15_MissingAnsweredBadRequest ==
    \E D \in DeptIds \ DOMAIN departments :
        /\ D < next_department_id
        /\ departments # <<>>
        /\ delete_department_endpoint(Store, D, "reassign", NULL)
               = {Failed("BadRequest", Store)}

\* C16: for an existing D, a reassign-delete without a target is a
\* caller-input error (400), with a target that does not exist NotFound,
\* with D itself as target Conflict, and a mode other than cascade and
\* reassign a caller-input error; each leaves the store as it was.
C16_ReassignDeleteRejections ==
    \A D \in DOMAIN departments :
        /\ delete_department_endpoint(Store, D, "reassign", NULL)
               = {Failed("BadRequest", Store)}
        /\ \A T \in DeptIds \ DOMAIN departments :
              delete_department_endpoint(Store, D, "reassign", T)
                  = {Failed("NotFound", Store)}
        /\ delete_department_endpoint(Store, D, "reassign", D)
               = {Failed("Conflict", Store)}
        /\ \A T \in DeptIds \cup {NULL} :
              \A out \in delete_department_endpoint(Store, D, "invalid", T) :
                  /\ out.result \in {"BadRequest", "Validation"}
                  /\ out.db = Store

\* C16, its case: D has a child and an employee, and some id issued earlier
\* resolves no more, so every one of the rejections has a request.
C16_Witness ==
    \E D, c \in DOMAIN departments, e \in DOMAIN employees :
        /\ departments[c].parent_id = D
        /\ employees[e].department_id = D
        /\ \E T \in DeptIds \ DOMAIN departments :
              /\ T < next_department_id
              /\ delete_department_endpoint(Store, D, "reassign", T)
                     = {Failed("NotFound", Store)}
        /\ delete_department_endpoint(Store, D, "reassign", D)
               = {Failed("Conflict", Store)}
        /\ delete_department_endpoint(Store, D, "reassign", NULL)
               = {Failed("BadRequest", Store)}

\* C17: update of an id that resolves to no department answers NotFound, and
\* so does an update whose effective new parent is a non-null id that
\* resolves to no department; neither writes anything.
C17_UpdateNotFound ==
    \A data \in ValidUpdates :
        /\ \A D \in DeptIds \ DOMAIN departments :
              update_department(Store, D, data) = Failed("NotFound", Store)
        /\ \A D \in DOMAIN departments :
              (/\ EffectiveParent(D, data) # NULL
               /\ EffectiveParent(D, data) \notin DOMAIN departments)
                  => update_department(Store, D, data)
                         = Failed("NotFound", Store)

\* C17 on the stores C1 allows.
C17_OnAcyclicStores == Acyclic(departments) => C17_UpdateNotFound

\* C17, the failing case: a department on a cycle, and the update that
\* names a missing parent never answers.
C17_MissingParentHangs ==
    \E D \in DOMAIN departments, data \in ValidUpdates :
        /\ data.parent_id # NULL
        /\ data.parent_id \notin DOMAIN departments
        /\ update_department(Store, D, data).result = "Hang"

\* The department ids of a tree response, in pre-order.
RECURSIVE TreeIds(_)
TreeIds(t) ==
    LET RECURSIVE below(_)
        below(i) == IF i > Len(t.children) THEN <<>>
                    ELSE TreeIds(t.children[i]) \o below(i + 1)
    IN  <<t.department.id>> \o below(1)

\* x is at most n parent steps below root.
RECURSIVE WithinDistance(_, _, _, _)
WithinDistance(depts, root, x, n) ==
    \/ x = root
    \/ /\ n > 0
       /\ depts[x].parent_id # NULL
       /\ WithinDistance(depts, root, depts[x].parent_id, n - 1)

\* A node with n levels left lists exactly its direct children, each
\* expanded with n - 1 levels left; with none left it lists no child.
RECURSIVE ExpandedTo(_, _)
ExpandedTo(t, n) ==
    IF n = 0 THEN t.children = <<>>
    ELSE /\ {t.children[i].department.id : i \in 1..Len(t.children)}
               = ChildrenOf(Store, t.department.id)
         /\ \A i \in 1..Len(t.children) :
               /\ t.children[i].department.parent_id = t.department.id
               /\ ExpandedTo(t.children[i], n - 1)

TreeParameters == BOOLEAN \X {"created_at", "full_name"}

\* C18: on an acyclic store, getTree(root, N) of an existing root holds
\* exactly the departments at distance 0..N from root, each once and nested
\* under its parent, a child at level k expanded with depth N - k and
\* depth 0 giving no children; getTree of a missing id answers NotFound.
C18_TreeDepthBound ==
    Acyclic(departments) =>
        \A root \in DeptIds, N \in 0..MaxDepth, q \in TreeParameters :
            LET out == get_department_tree(Store, root, N, q[1], q[2])
            IN  IF root \notin DOMAIN departments
                THEN out.result = "NotFound"
                ELSE /\ out.result = "ok"
                     /\ out.tree.department.id = root
                     /\ ExpandedTo(out.tree, N)
                     /\ LET ids == TreeIds(out.tree)
                        IN  /\ \A i, j \in 1..Len(ids) :
                                  i # j => ids[i] # ids[j]
                            /\ {ids[i] : i \in 1..Len(ids)}
                                   = {x \in DOMAIN departments :
                                         WithinDistance(departments, root, x, N)}

\* C18, its case: a chain root, child, grandchild: depth 0
\* shows the root alone, depth 1 the child without the grandchild, depth 2
\* the grandchild under the child.
C18_Witness ==
    \E root, c, g \in DOMAIN departments :
        /\ Acyclic(departments)
        /\ departments[c].parent_id = root
        /\ departments[g].parent_id = c
        /\ TreeIds(get_department_tree(Store, root, 0, TRUE,
                                       "created_at").tree) = <<root>>
        /\ TreeIds(get_department_tree(Store, root, 1, TRUE,
                                       "created_at").tree) = <<root, c>>
        /\ TreeIds(get_department_tree(Store, root, 2, TRUE,
                                       "created_at").tree) = <<root, c, g>>

\* The (name, id) and (full_name | created_at, id) keys, on response rows.
ChildBefore(x, y) ==
    \/ name_lt(x.department.name, y.department.name)
    \/ x.department.name = y.department.name /\ x.department.id < y.department.id

EmployeeBefore(x, y, sort_employees_by) ==
    IF sort_employees_by = "full_name"
    THEN \/ name_lt(x.full_name, y.full_name)
         \/ x.full_name = y.full_name /\ x.id < y.id
    ELSE \/ x.created_at < y.created_at
         \/ x.created_at = y.created_at /\ x.id < y.id

RECURSIVE TreeOrdered(_, _, _)
TreeOrdered(t, include_employees, sort_employees_by) ==
    /\ \A i, j \in 1..Len(t.children) :
          i < j => ChildBefore(t.children[i], t.children[j])
    /\ IF include_employees
       THEN /\ {t.employees[i].id : i \in 1..Len(t.employees)}
                  = EmployeesOf(Store, t.department.id)
            /\ \A i \in 1..Len(t.employees) :
                  t.employees[i].department_id = t.department.id
            /\ \A i, j \in 1..Len(t.employees) :
                  i < j => EmployeeBefore(t.employees[i], t.employees[j],
                                          sort_employees_by)
       ELSE t.employees = <<>>
    /\ \A i \in 1..Len(t.children) :
          TreeOrdered(t.children[i], include_employees, sort_employees_by)

\* C19: in every tree getTree returns, at every level the children are
\* strictly ascending by (name, id); with include_employees each node lists
\* exactly the employees of its department, strictly ascending by
\* (full_name, id) for sort key full_name and by (created_at, id)
\* otherwise; without it every node's employee list is empty.
C19_TreeOrdering ==
    \A w \in Workers :
        (sessions[w].op = "tree" /\ sessions[w].result = "ok") =>
            TreeOrdered(sessions[w].response, sessions[w].include_employees,
                        sessions[w].sort_employees_by)

\* C19, its case: a returned tree whose children come in the opposite order
\* of their ids, and whose root lists two employees of one name, the one
\* created later (as the clock has it) having the smaller id.
C19_Witness ==
    \E w \in Workers :
        /\ sessions[w].op = "tree" /\ sessions[w].result = "ok"
        /\ sessions[w].include_employees
        /\ sessions[w].sort_employees_by = "created_at"
        /\ LET t == sessions[w].response
           IN  /\ Len(t.children) = 2
               /\ t.children[1].department.id > t.children[2].department.id
               /\ Len(t.employees) = 2
               /\ t.employees[1].id > t.employees[2].id
               /\ t.employees[1].full_name = t.employees[2].full_name

\* C19, a second case: employees of one name and one creation time, told
\* apart by id under either key.
C19_TieBrokenById ==
    \E w \in Workers :
        /\ sessions[w].op = "tree" /\ sessions[w].result = "ok"
        /\ sessions[w].include_employees
        /\ LET t == sessions[w].response
           IN  /\ Len(t.employees) = 2
               /\ t.employees[1].full_name = t.employees[2].full_name
               /\ t.employees[1].created_at = t.employees[2].created_at
               /\ t.employees[1].id < t.employees[2].id

ValidEmployees == {d \in {EmployeeCreate(b) : b \in EmployeeBodies} : d.valid}

\* C20: createEmployee answers NotFound and adds nothing when department_id
\* resolves to no department; otherwise it succeeds and adds exactly one
\* employee, under a fresh id, in that department, whether or not an
\* employee of the same full_name and position is already there.
C20_CreateEmployee ==
    \A d \in DeptIds, data \in ValidEmployees, now \in Times :
        LET out == create_employee(Store, d, data, next_employee_id, now)
        IN  IF d \notin DOMAIN departments
            THEN out = Failed("NotFound", Store)
            ELSE /\ out.result = "ok"
                 /\ next_employee_id \notin DOMAIN employees
                 /\ DOMAIN out.db.employees
                        = DOMAIN employees \cup {next_employee_id}
                 /\ out.db.employees[next_employee_id].department_id = d
                 /\ out.db.employees[next_employee_id].full_name
                        = data.full_name
                 /\ \A e \in DOMAIN employees :
                       out.db.employees[e] = employees[e]
                 /\ out.db.departments = departments

\* C20, its case: a department that already has an employee of the name and
\* position sent gets a second one, and an id issued earlier that resolves
\* no more gives NotFound.
C20_Witness ==
    \E d \in DOMAIN departments, e \in DOMAIN employees,
       data \in ValidEmployees :
        /\ employees[e].department_id = d
        /\ employees[e].full_name = data.full_name
        /\ employees[e].position = data.position
        /\ LET out == create_employee(Store, d, data, next_employee_id, 1)
           IN  /\ out.result = "ok"
               /\ Cardinality(EmployeesOf(out.db, d)) = 2
        /\ \E m \in DeptIds \ DOMAIN departments :
              /\ m < next_department_id
              /\ create_employee(Store, m, data, next_employee_id, 1)
                     = Failed("NotFound", Store)

\* v is all blanks (the empty string included).
Blank(v) == \A i \in 1..Len(v) : v[i] = " "

\* t is not empty and neither starts nor ends with a blank.
Normalised(t) == t # <<>> /\ t[1] # " " /\ t[Len(t)] # " "

\* t is v without its leading and trailing blanks.
TrimOf(t, v) ==
    \E a, b \in 0..Len(v) :
        /\ a + b <= Len(v)
        /\ t = SubSeq(v, a + 1, Len(v) - b)
        /\ Blank(SubSeq(v, 1, a))
        /\ Blank(SubSeq(v, Len(v) - b + 1, Len(v)))
        /\ (t = <<>> \/ Normalised(t))

\* C21: every stored department name is non-empty and has no leading or
\* trailing whitespace; a create whose name is empty or all whitespace is
\* refused as a validation error and stores nothing; an accepted create or
\* update stores the trimmed name, and a padded name is accepted or refused
\* exactly as its trimmed form is (uniqueness is decided on the trimmed name).
C21_NamesNormalised ==
    /\ \A d \in DOMAIN departments : Normalised(departments[d].name)
    /\ \A body \in CreateBodies :
          LET out == post_department(Store, body, next_department_id)
          IN  /\ Blank(body.name) => out = Failed("Validation", Store)
              /\ out.result = "ok" =>
                    TrimOf(out.db.departments[next_department_id].name,
                           body.name)
              /\ \A t \in {d.name : d \in ValidCreates} :
                    TrimOf(t, body.name) =>
                        /\ out = post_department(Store,
                                     [body EXCEPT !.name = t],
                                     next_department_id)
                        /\ (\E x \in DOMAIN departments :
                               /\ departments[x].name = t
                               /\ departments[x].parent_id = body.parent_id)
                              => out.result = "Conflict"
    /\ \A D \in DOMAIN departments, body \in UpdateBodies :
          LET out == patch_department(Store, D, body)
          IN  /\ (out.result = "ok" /\ body.has_name /\ ~Blank(body.name))
                    => TrimOf(out.db.departments[D].name, body.name)
              /\ \A t \in {d.name : d \in ValidCreates} :
                    (body.has_name /\ TrimOf(t, body.name)) =>
                        out = patch_department(Store, D,
                                  [body EXCEPT !.name = t])

\* C21, its case: a department stored under the trimmed form of a padded
\* name; the padded name sent again for the same parent is refused with
\* Conflict, a blank name with a validation error, and the rename of a
\* sibling to the padded name with Conflict.
C21_Witness ==
    \E d, x \in DOMAIN departments :
        /\ d # x
        /\ departments[d].name = <<"b">>
        /\ departments[x].parent_id = departments[d].parent_id
        /\ Acyclic(departments)
        /\ post_department(Store,
               [name |-> <<" ", "b", " ">>,
                parent_id |-> departments[d].parent_id],
               next_department_id) = Failed("Conflict", Store)
        /\ post_department(Store,
               [name |-> <<" ">>, parent_id |-> departments[d].parent_id],
               next_department_id) = Failed("Validation", Store)
        /\ patch_department(Store, x,
               [has_name |-> TRUE, name |-> <<" ", "b", " ">>,
                parent_id |-> Absent]) = Failed("Conflict", Store)

\* C22: in every reachable store every update call ends, with a success or
\* an error, and the work-list walk that collects the descendant ids of a
\* department always empties its stack.
C22_UpdateTerminates ==
    /\ \A D \in DeptIds, data \in ValidUpdates :
          update_department(Store, D, data).result
              \in {"ok", "NotFound", "Conflict"}
    /\ \A D \in DOMAIN departments :
          _get_descendant_ids(Store, D).terminates

\* C22 on the stores C1 allows.
C22_OnAcyclicStores == Acyclic(departments) => C22_UpdateTerminates

\* C22, where the walk ends: exactly from the departments that are not
\* their own ancestor; an update that never answers has walked from one
\* that is.
C22_WalkEndsOffCycles ==
    /\ \A D \in DOMAIN departments :
          _get_descendant_ids(Store, D).terminates
              <=> ~IsAncestor(departments, D, D)
    /\ \A D \in DeptIds, data \in ValidUpdates :
          update_department(Store, D, data).result
                  \notin {"ok", "NotFound", "Conflict"}
              => /\ D \in DOMAIN departments
                 /\ IsAncestor(departments, D, D)
                 /\ EffectiveParent(D, data) \notin {NULL, D}

\* C22, the failing case: two departments that are each other's parent, and
\* the rename of one of them with its parent sent along never answers.
C22_WalkNeverEnds ==
    \E D, x \in DOMAIN departments :
        /\ D # x
        /\ departments[D].parent_id = x
        /\ departments[x].parent_id = D
        /\ ~_get_descendant_ids(Store, D).terminates
        /\ update_department(Store, D,
               [valid |-> TRUE, name |-> <<"b">>, parent_id |-> x]).result
               = "Hang"

\* C23: two concurrent updates that each pass their descendant check before
\* the other writes do not both commit into a cycle: when both are
\* accepted the store is still acyclic.
C23_ConcurrentReparents ==
    \A w, v \in Workers :
        (/\ w # v
         /\ At(w, "update", "done") /\ At(v, "update", "done")
         /\ sessions[w].checked /\ sessions[v].checked
         /\ sessions[w].result = "ok" /\ sessions[v].result = "ok")
        => Acyclic(departments)

\* C23, the failing case: both updates accepted, and the two departments
\* are each other's parent.
C23_MutualParents ==
    \E w, v \in Workers :
        /\ w # v
        /\ At(w, "update", "done") /\ At(v, "update", "done")
        /\ sessions[w].result = "ok" /\ sessions[v].result = "ok"
        /\ departments[sessions[w].id].parent_id = sessions[v].id
        /\ departments[sessions[v].id].parent_id = sessions[w].id

\* C23, the part that holds: an update that runs alone on an acyclic store
\* leaves an acyclic store.
C23_UpdateAloneKeepsAcyclic ==
    Acyclic(departments) =>
        \A D \in DeptIds, body \in UpdateBodies :
            Acyclic(patch_department(Store, D, body).db.departments)

\* C24: in an acyclic store the descendant-id computation for a department D
\* ends and returns exactly the departments from which D is reached by one
\* or more parent steps: never D itself, never a department outside D's
\* subtree, and every department inside it, however deep.
C24_DescendantIds ==
    Acyclic(departments) =>
        \A D \in DOMAIN departments :
            LET out == _get_descendant_ids(Store, D)
            IN  /\ out.terminates
                /\ D \notin out.result
                /\ out.result \subseteq DOMAIN departments
                /\ \A x \in DOMAIN departments :
                      x \in out.result <=> IsAncestor(departments, D, x)

\* C24, its case: a chain D, c, g: the walk from D returns c and g, the
\* walk from c returns g alone and leaves out its parent D, the walk from g
\* returns nothing.
C24_Witness ==
    \E D, c, g \in DOMAIN departments :
        /\ Acyclic(departments)
        /\ departments[c].parent_id = D
        /\ departments[g].parent_id = c
        /\ _get_descendant_ids(Store, D).result = {c, g}
        /\ _get_descendant_ids(Store, c).result = {g}
        /\ _get_descendant_ids(Store, g).result = {}

\* No row of db points at a department that is not there.
NoDanglingReference(db) ==
    /\ \A e \in DOMAIN db.employees :
          \E d \in DOMAIN db.departments : db.employees[e].department_id = d
    /\ \A c \in DOMAIN db.departments :
          \/ db.departments[c].parent_id = NULL
          \/ \E d \in DOMAIN db.departments : db.departments[c].parent_id = d

\* C25: in every reachable store every employee's department_id and every
\* non-null parent_id names an existing department, and so it is in the
\* store any request leaves behind, accepted or not.
C25_ReferentialIntegrity ==
    /\ NoDanglingReference(Store)
    /\ \A out \in AllOutcomes : NoDanglingReference(out.db)

\* C25, its case: D has a child and an employee, and another department T
\* is there: the cascade-delete of D takes both with it, the
\* reassign-delete hands both to T.
C25_Witness ==
    \E D, c, T \in DOMAIN departments, e \in DOMAIN employees :
        /\ T \notin {D, c}
        /\ departments[c].parent_id = D
        /\ employees[e].department_id = D
        /\ \E out \in delete_department_endpoint(Store, D, "cascade", NULL) :
              /\ out.result = "ok"
              /\ DOMAIN out.db.departments = DOMAIN departments \ {D, c}
              /\ out.db.employees = <<>>
        /\ \E out \in delete_department_endpoint(Store, D, "reassign", T) :
              /\ out.result = "ok"
              /\ out.db.departments[c].parent_id = T
              /\ out.db.employees[e].department_id = T

\* C26: a successful update of D adds and removes no row and changes
\* nothing but D's name and parent_id: D keeps its id and created_at, every
\* other department its whole row (so the descendants of D are the same
\* departments as before and D's children still point at D), and every
\* employee its row.
C26_UpdateFrame ==
    \A D \in DeptIds, body \in UpdateBodies :
        LET out == patch_department(Store, D, body)
        IN  out.result = "ok" =>
                /\ D \in DOMAIN departments
                /\ DOMAIN out.db.departments = DOMAIN departments
                /\ out.db.departments[D].created_at = departments[D].created_at
                /\ \A x \in DOMAIN departments \ {D} :
                      out.db.departments[x] = departments[x]
                /\ ChildrenOf(out.db, D) = ChildrenOf(Store, D)
                /\ Descendants(out.db.departments, D)
                       = Descendants(departments, D)
                /\ out.db.employees = employees

\* C26, its case: D has a child and an employee and is renamed and moved
\* under another department in one accepted update; the child and the
\* employee are where they were.
C26_Witness ==
    \E D, c, p \in DOMAIN departments, e \in DOMAIN employees :
        /\ p \notin {D, c}
        /\ departments[c].parent_id = D
        /\ departments[D].parent_id # p
        /\ departments[D].name # <<"b">>
        /\ employees[e].department_id = D
        /\ \E out \in {patch_department(Store, D,
                          [has_name |-> TRUE, name |-> <<" ", "b", " ">>,
                           parent_id |-> p])} :
              /\ out.result = "ok"
              /\ out.db.departments[D] =
                     [name |-> <<"b">>, parent_id |-> p,
                      created_at |-> departments[D].created_at]
              /\ out.db.departments[c] = departments[c]
              /\ out.db.employees[e] = employees[e]

\* The root departments of db.
Roots(db) ==
    {d \in DOMAIN db.departments : db.departments[d].parent_id = NULL}

\* A department of the store that has a parent and is still there has one.
NonRootsStay(out) ==
    \A x \in DOMAIN departments \cap DOMAIN out.db.departments :
        departments[x].parent_id # NULL
            => out.db.departments[x].parent_id # NULL

\* C27 as stated: no request makes a root of a department that has a
\* parent: no update, whether parent_id is left out, null or an id, and no
\* delete of another department; the set of roots changes only by an
\* accepted create with a null parent and by the accepted delete of a root.
C27_RootsChangeByCreateAndDelete ==
    /\ \A out \in AllOutcomes : NonRootsStay(out)
    /\ \A b \in CreateBodies :
          LET out == post_department(Store, b, next_department_id)
          IN  Roots(out.db) =
                  Roots(Store) \cup
                      (IF out.result = "ok" /\ b.parent_id = NULL
                       THEN {next_department_id} ELSE {})
    /\ \A d \in DeptIds, b \in EmployeeBodies, t \in Times :
          Roots(post_employee(Store, d, b, next_employee_id, t).db)
              = Roots(Store)
    /\ \A D \in DeptIds, b \in UpdateBodies :
          Roots(patch_department(Store, D, b).db) = Roots(Store)
    /\ \A D \in DeptIds, m \in Modes, T \in DeptIds \cup {NULL} :
          \A out \in delete_department_endpoint(Store, D, m, T) :
              Roots(out.db) =
                  Roots(Store) \
                      (IF out.result = "ok" /\ D \in Roots(Store)
                       THEN {D} ELSE {})

\* C27, amended: no request makes a root of a department that has a parent;
\* the set of roots grows only by an accepted create with a null parent,
\* and shrinks only by the accepted delete of a root and by the accepted
\* update that gives a root a parent.
C27_NoNewRoots ==
    /\ \A out \in AllOutcomes : NonRootsStay(out)
    /\ \A b \in CreateBodies :
          LET out == post_department(Store, b, next_department_id)
          IN  Roots(out.db) =
                  Roots(Store) \cup
                      (IF out.result = "ok" /\ b.parent_id = NULL
                       THEN {next_department_id} ELSE {})
    /\ \A d \in DeptIds, b \in EmployeeBodies, t \in Times :
          Roots(post_employee(Store, d, b, next_employee_id, t).db)
              = Roots(Store)
    /\ \A D \in DeptIds, b \in UpdateBodies :
          LET out == patch_department(Store, D, b)
          IN  Roots(out.db) =
                  Roots(Store) \
                      (IF /\ out.result = "ok"
                          /\ D \in Roots(Store)
                          /\ b.parent_id \in DOMAIN departments
                       THEN {D} ELSE {})
    /\ \A D \in DeptIds, m \in Modes, T \in DeptIds \cup {NULL} :
          \A out \in delete_department_endpoint(Store, D, m, T) :
              Roots(out.db) =
                  Roots(Store) \
                      (IF out.result = "ok" /\ D \in Roots(Store)
                       THEN {D} ELSE {})

\* C27, the case the statement leaves out: a root that an accepted update
\* puts under another department.
C27_RootGivenParent ==
    \E D, p \in DOMAIN departments :
        /\ departments[D].parent_id = NULL
        /\ \E out \in {patch_department(Store, D,
                          [has_name |-> FALSE, name |-> NoName,
                           parent_id |-> p])} :
              /\ out.result = "ok"
              /\ Roots(out.db) = Roots(Store) \ {D}

\* C27, its case: x is a child of P, and P (with an employee) is not a
\* root: the update of x with an explicit null parent is accepted and x
\* stays under P; the reassign-delete of P puts x under the target; the
\* cascade-delete of P removes x; the roots are the same after each.
C27_Witness ==
    \E x, P, T \in DOMAIN departments :
        /\ departments[x].parent_id = P
        /\ departments[P].parent_id = T
        /\ Acyclic(departments)
        /\ \E out \in {patch_department(Store, x,
                          [has_name |-> TRUE, name |-> <<"b">>,
                           parent_id |-> NULL])} :
              /\ out.result = "ok"
              /\ out.db.departments[x].parent_id = P
        /\ \E out \in delete_department_endpoint(Store, P, "reassign", T) :
              /\ out.result = "ok"
              /\ out.db.departments[x].parent_id = T
              /\ Roots(out.db) = Roots(Store)
        /\ \E out \in delete_department_endpoint(Store, P, "cascade", NULL) :
              /\ out.result = "ok"
              /\ x \notin DOMAIN out.db.departments
              /\ Roots(out.db) = Roots(Store)

\* C28: a successful cascade-delete of D leaves every department that is
\* neither D nor a descendant of D in the store with the row it had, and
\* every employee of such a department with the row it had.
C28_CascadeDeleteFrame ==
    \A D \in DOMAIN departments, T \in DeptIds \cup {NULL} :
        \A out \in delete_department_endpoint(Store, D, "cascade", T) :
            out.result = "ok" =>
                LET kept == DOMAIN departments
                                \ ({D} \cup Descendants(departments, D))
                IN  /\ \A x \in kept :
                          /\ x \in DOMAIN out.db.departments
                          /\ out.db.departments[x] = departments[x]
                    /\ \A e \in DOMAIN employees :
                          employees[e].department_id \in kept
                              => /\ e \in DOMAIN out.db.employees
                                 /\ out.db.employees[e] = employees[e]

\* C28, its case: D has a child, a parent P and P has an employee; the
\* cascade-delete of D removes D and the child and leaves P and the
\* employee as they were.
C28_Witness ==
    \E P, D, c \in DOMAIN departments, e \in DOMAIN employees :
        /\ departments[D].parent_id = P
        /\ departments[c].parent_id = D
        /\ employees[e].department_id = P
        /\ Acyclic(departments)
        /\ \E out \in delete_department_endpoint(Store, D, "cascade", NULL) :
              /\ out.result = "ok"
              /\ DOMAIN out.db.departments = {P}
              /\ out.db.departments[P] = departments[P]
              /\ out.db.employees = employees

\* C28, a second case: a sibling of D with an employee stays, under the
\* same parent, when D is cascade-deleted.
C28_SiblingKept ==
    \E P, D, s \in DOMAIN departments, e \in DOMAIN employees :
        /\ D # s
        /\ departments[D].parent_id = P
        /\ departments[s].parent_id = P
        /\ employees[e].department_id = s
        /\ Acyclic(departments)
        /\ \E out \in delete_department_endpoint(Store, D, "cascade", NULL) :
              /\ out.result = "ok"
              /\ DOMAIN out.db.departments = {P, s}
              /\ out.db.departments[s] = departments[s]
              /\ out.db.employees = employees

====
